---------------------------- MODULE Spec2Model ----------------------------
(***************************************************************************)
(* Project_Scheduler: the scoring and placement core (src/src/logic.rs)    *)
(* as it is driven by GET /api/plan/today (src/src/routes_plan.rs).        *)
(*                                                                         *)
(* Instants are integers counting ticks of 1/Tps second since            *)
(* midnight UTC of day 0; a DateTime<FixedOffset> is the pair of the UTC   *)
(* instant and the offset in seconds east of UTC.  A NaiveDate is a day    *)
(* number.  Strings that the code inspects (titles, "HH:MM" settings) are  *)
(* sequences of character codes.                                           *)
(***************************************************************************)
EXTENDS Integers, Sequences, FiniteSets, TLC

VARIABLES
    pc,             \* position in get_today_plan / the function under test
    tasks,          \* db.tasks: Vec<Task>
    now,            \* DateTime<FixedOffset>
    date,           \* NaiveDate (day number)
    settings,       \* DaySettings
    available_min,  \* i64
    relevant,       \* result of relevant_tasks
    scored,         \* result of score_and_sort: Vec<ScoredTask>
    rescored,       \* result of score_and_sort applied to the tasks of scored
    day_start_dt,   \* locals of build_today_plan
    day_end_dt,
    cursor,
    remaining,
    idx,            \* number of elements of scored_sorted already consumed by the for loop
    plan,           \* Vec<PlanItem>
    unplanned,      \* Vec<UnplannedItem>
    db_file,        \* the file data/db.json
    tmp_file,       \* the file data/db.json.tmp
    req,            \* the requests being handled, one per worker
    next_id         \* number of ids Uuid::new_v4 has handed out

vars == <<pc, tasks, now, date, settings, available_min, relevant, scored, rescored,
          day_start_dt, day_end_dt, cursor, remaining, idx, plan, unplanned,
          db_file, tmp_file, req, next_id>>

store_vars == <<db_file, tmp_file, req, next_id>>

---------------------------------------------------------------------------
(* Bounds of the model *)

\* ticks per second: chrono instants are finer than the whole seconds num_seconds() returns
Tps == 2
\* longest task list handed to build_today_plan
MaxTasks == 3
\* longest task list handed to score_and_sort when checking the ordering
MaxSortLen == 3
\* longest task list handed to relevant_tasks
MaxRelLen == 2
\* longest task list used to compare the scores of tasks
MaxScoreLen == 2

---------------------------------------------------------------------------
(* Time *)

\* let day = 24 * 60 * 60;
Day == 24 * 60 * 60

\* Duration::minutes(m), Duration::hours(h) in ticks
Minutes(m) == m * 60 * Tps
Hours(h) == h * 60 * 60 * Tps

\* the instant whose local wall clock, at offset off, reads day d, h:m:s plus sub ticks
At(d, h, m, off) == [t |-> (d * Day + h * 3600 + m * 60 - off) * Tps, off |-> off]

\* DateTime + Duration keeps the offset
AddTicks(dt, k) == [t |-> dt.t + k, off |-> dt.off]

\* DateTime::date_naive: the calendar date of the local wall clock
date_naive(dt) == (dt.t + dt.off * Tps) \div (Day * Tps)

\* TimeDelta::num_seconds: whole seconds, truncated toward zero
num_seconds(ticks) == IF ticks >= 0 THEN ticks \div Tps ELSE -((-ticks) \div Tps)

\* DateTime comparison is by instant
After(a, b) == a.t > b.t

None == [some |-> FALSE]
Some(v) == [some |-> TRUE, v |-> v]
UnwrapOr(o, d) == IF o.some THEN o.v ELSE d

---------------------------------------------------------------------------
(* Strings *)

\* char::to_lowercase on the ASCII range: 'A'..'Z' map to 'a'..'z'
LowerChar(c) == IF c >= 65 /\ c <= 90 THEN c + 32 ELSE c

\* str::to_lowercase
to_lowercase(s) == [i \in 1..Len(s) |-> LowerChar(s[i])]

\* Ord for str: lexicographic by code, a proper prefix is smaller.  -1 Less, 0 Equal, 1 Greater
RECURSIVE CmpStr(_, _)
CmpStr(a, b) ==
    IF a = <<>> THEN (IF b = <<>> THEN 0 ELSE -1)
    ELSE IF b = <<>> THEN 1
    ELSE IF Head(a) < Head(b) THEN -1
    ELSE IF Head(a) > Head(b) THEN 1
    ELSE CmpStr(Tail(a), Tail(b))

\* Ord for i64
CmpInt(a, b) == IF a < b THEN -1 ELSE IF a > b THEN 1 ELSE 0

---------------------------------------------------------------------------
(* logic.rs: Selector and Scorer *)

\* variant of relevant_tasks that reads the due date at the offset of now
relevant_tasks_now_offset(ts, d, n) ==
    SelectSeq(SelectSeq(ts, LAMBDA t : t.status # "Done"),
              LAMBDA t : After(n, t.due_at)
                         \/ date_naive([t |-> t.due_at.t, off |-> n.off]) = d)

relevant_tasks(ts, d, n) ==
    SelectSeq(SelectSeq(ts, LAMBDA t : t.status # "Done"),
              LAMBDA t : After(n, t.due_at) \/ date_naive(t.due_at) = d)

\* variant of urgency_score whose bands are closed at the top
urgency_score_closed_bands(due_at, n) ==
    IF After(n, due_at) THEN 5
    ELSE LET secs == num_seconds(due_at.t - n.t) IN
         IF secs <= 0 THEN 5
         ELSE IF secs <= 1 * Day THEN 5
         ELSE IF secs <= 2 * Day THEN 4
         ELSE IF secs <= 3 * Day THEN 3
         ELSE IF secs <= 4 * Day THEN 2
         ELSE IF secs <= 5 * Day THEN 1
         ELSE 0

urgency_score(due_at, n) ==
    IF After(n, due_at) THEN 5
    ELSE LET secs == num_seconds(due_at.t - n.t) IN
         IF secs <= 0 THEN 5
         ELSE IF secs < 1 * Day THEN 5
         ELSE IF secs < 2 * Day THEN 4
         ELSE IF secs < 3 * Day THEN 3
         ELSE IF secs < 4 * Day THEN 2
         ELSE IF secs < 5 * Day THEN 1
         ELSE 0

\* variant of duration_score whose buckets are open at the top
duration_score_open_buckets(duration_min) ==
    LET bucket == IF duration_min < 60 THEN 1
                  ELSE IF duration_min < 120 THEN 2
                  ELSE IF duration_min < 180 THEN 3
                  ELSE IF duration_min < 240 THEN 4
                  ELSE 5
    IN 6 - bucket

duration_score(duration_min) ==
    LET bucket == IF duration_min <= 60 THEN 1
                  ELSE IF duration_min <= 120 THEN 2
                  ELSE IF duration_min <= 180 THEN 3
                  ELSE IF duration_min <= 240 THEN 4
                  ELSE 5
    IN 6 - bucket

\* the closure of score_and_sort's map
ScoreOne(t, n) ==
    LET u == urgency_score(t.due_at, n)
        d == duration_score(t.duration_min)
        p == t.priority
    IN [task |-> t, is_overdue |-> After(n, t.due_at),
        urgency |-> u, duration_score |-> d, total |-> u + p + d]

\* variant of the comparator that compares the titles as they are
CmpScoredCaseSensitive(a, b) ==
    LET c == CmpInt(b.total, a.total) IN
    IF c # 0 THEN c ELSE CmpStr(a.task.title, b.task.title)

\* the comparator handed to sort_by: total descending, then lowercased title ascending
CmpScored(a, b) ==
    LET c == CmpInt(b.total, a.total) IN
    IF c # 0 THEN c ELSE CmpStr(to_lowercase(a.task.title), to_lowercase(b.task.title))

\* variant of the insertion that puts x in front of the elements it ties with
RECURSIVE InsertBeforeTies(_, _)
InsertBeforeTies(s, x) ==
    IF s = <<>> THEN <<x>>
    ELSE IF CmpScored(x, Head(s)) <= 0 THEN <<x>> \o s
    ELSE <<Head(s)>> \o InsertBeforeTies(Tail(s), x)

\* slice::sort_by is a stable sort: x goes behind every element it does not precede
RECURSIVE InsertStable(_, _)
InsertStable(s, x) ==
    IF s = <<>> THEN <<x>>
    ELSE IF CmpScored(x, Head(s)) < 0 THEN <<x>> \o s
    ELSE <<Head(s)>> \o InsertStable(Tail(s), x)

RECURSIVE SortBy(_, _)
SortBy(done, rest) ==
    IF rest = <<>> THEN done
    ELSE SortBy(InsertStable(done, Head(rest)), Tail(rest))

score_and_sort(ts, n) == SortBy(<<>>, [i \in 1..Len(ts) |-> ScoreOne(ts[i], n)])

---------------------------------------------------------------------------
(* logic.rs: parse_hhmm_to_today *)

\* str::split(':'): the pieces between the colons (one piece when there is no colon)
RECURSIVE SplitAcc(_, _, _)
SplitAcc(s, piece, acc) ==
    IF s = <<>> THEN Append(acc, piece)
    ELSE IF Head(s) = 58 THEN SplitAcc(Tail(s), <<>>, Append(acc, piece))
    ELSE SplitAcc(Tail(s), Append(piece, Head(s)), acc)

Split(s) == SplitAcc(s, <<>>, <<>>)

IsDigit(c) == c >= 48 /\ c <= 57

RECURSIVE DigitsValue(_, _)
DigitsValue(s, acc) ==
    IF s = <<>> THEN acc ELSE DigitsValue(Tail(s), acc * 10 + (Head(s) - 48))

\* str::parse::<u32>().ok(): an optional '+', then at least one digit, nothing else.
\* (A u32 overflows from ten digits on; the strings of this model have at most five.)
ParseU32(s) ==
    LET body == IF s # <<>> /\ Head(s) = 43 THEN Tail(s) ELSE s IN
    IF body = <<>> \/ \E i \in 1..Len(body) : ~IsDigit(body[i]) THEN None
    ELSE Some(DigitsValue(body, 0))

\* variant of parse_hhmm_to_today that takes any hour and minute
parse_hhmm_any_number(d, hhmm, offset) ==
    LET parts == Split(hhmm) IN
    IF Len(parts) # 2 THEN None
    ELSE LET h == ParseU32(parts[1])
             m == ParseU32(parts[2])
         IN IF ~h.some \/ ~m.some THEN None
            ELSE Some(At(d, h.v, m.v, offset))

\* NaiveDate::and_hms_opt(h, m, 0) followed by offset.from_local_datetime(..).single()
parse_hhmm_to_today(d, hhmm, offset) ==
    LET parts == Split(hhmm) IN
    IF Len(parts) # 2 THEN None
    ELSE LET h == ParseU32(parts[1])
             m == ParseU32(parts[2])
         IN IF ~h.some \/ ~m.some THEN None
            ELSE IF h.v >= 24 \/ m.v >= 60 THEN None
            ELSE Some(At(d, h.v, m.v, offset))

---------------------------------------------------------------------------
(* logic.rs: build_today_plan, one action per iteration of its for loop *)

\* variant of the initial cursor that always takes the day start
StartCursorDayStart(n, ds) == ds

\* let mut cursor = if now > day_start_dt { now } else { day_start_dt };
StartCursor(n, ds) == IF After(n, ds) THEN n ELSE ds

\* variant of the budget test that lets a budget of exactly 0 through
BudgetExhaustedStrict(rem) == rem < 0

\* if remaining <= 0
BudgetExhausted(rem) == rem <= 0

\* variant of the duration test that lets a duration of exactly 0 through
InvalidDurationStrict(dur) == dur < 0

\* if dur <= 0
InvalidDuration(dur) == dur <= 0

\* variant of the fit test that turns away a task ending exactly at the end of the day
DoesNotFitAtEdge(end, de, dur, rem) == end.t >= de.t \/ dur > rem

\* variant of the fit test that forgets the budget
DoesNotFitDayEndOnly(end, de, dur, rem) == After(end, de)

\* variant of the fit test that forgets the end of the day
DoesNotFitBudgetOnly(end, de, dur, rem) == dur > rem

\* if end > day_end_dt || dur > remaining
DoesNotFit(end, de, dur, rem) == After(end, de) \/ dur > rem

\* variant of the rejection that records nothing
PushUnplannedDropped(u, st, reason) == u

\* variant of the rejection that puts the entry in front
PushUnplannedFront(u, st, reason) == <<[task_id |-> st.task.id, reason |-> reason]>> \o u

\* unplanned.push(UnplannedItem { task_id, reason })
PushUnplanned(u, st, reason) == Append(u, [task_id |-> st.task.id, reason |-> reason])

\* variant of the cursor update that leaves the cursor where it was
AdvanceCursorStuck(c, end) == c

\* cursor = end;
AdvanceCursor(c, end) == end

\* variant of the plan item whose total leaves the priority out
MakePlanItemNoPriority(st, c, end) ==
    [task_id |-> st.task.id, title |-> st.task.title, start |-> c, end |-> end,
     score_breakdown |-> [urgency |-> st.urgency, priority |-> st.task.priority,
                          duration_score |-> st.duration_score,
                          total |-> st.urgency + st.duration_score],
     is_overdue |-> st.is_overdue]

\* PlanItem { task_id, title, start: cursor, end, score_breakdown, is_overdue }
MakePlanItem(st, c, end) ==
    [task_id |-> st.task.id, title |-> st.task.title, start |-> c, end |-> end,
     score_breakdown |-> [urgency |-> st.urgency, priority |-> st.task.priority,
                          duration_score |-> st.duration_score, total |-> st.total],
     is_overdue |-> st.is_overdue]

\* the element the for loop is about to take, and the end it would be given
Current == scored[idx + 1]
CandidateEnd == AddTicks(cursor, Minutes(Current.task.duration_min))
InLoop == pc = "loop" /\ idx < Len(scored)

inputs == <<tasks, now, date, settings, available_min>>
plan_locals == <<day_start_dt, day_end_dt, cursor, remaining, idx, plan, unplanned>>

RelevantTasks ==
    /\ pc = "start"
    /\ relevant' = relevant_tasks(tasks, date, now)
    /\ pc' = "relevant"
    /\ UNCHANGED <<store_vars, inputs, scored, rescored, plan_locals>>

ScoreAndSort ==
    /\ pc = "relevant"
    /\ scored' = score_and_sort(relevant, now)
    /\ pc' = "sorted"
    /\ UNCHANGED <<store_vars, inputs, relevant, rescored, plan_locals>>

\* score_and_sort applied to the tasks of its own output, in output order
Resort ==
    /\ pc = "sorted"
    /\ rescored' = score_and_sort([i \in 1..Len(scored) |-> scored[i].task], now)
    /\ pc' = "resorted"
    /\ UNCHANGED <<store_vars, inputs, relevant, scored, plan_locals>>

PlanStart ==
    /\ pc = "sorted"
    /\ LET offset == now.off
           ds == UnwrapOr(parse_hhmm_to_today(date, settings.day_start, offset), now)
           de == UnwrapOr(parse_hhmm_to_today(date, settings.day_end, offset),
                          AddTicks(now, Hours(8)))
       IN /\ day_start_dt' = ds
          /\ day_end_dt' = de
          /\ cursor' = StartCursor(now, ds)
    /\ remaining' = available_min
    /\ plan' = <<>>
    /\ unplanned' = <<>>
    /\ idx' = 0
    /\ pc' = "loop"
    /\ UNCHANGED <<store_vars, inputs, relevant, scored, rescored>>

PlanRejectBudget ==
    /\ InLoop
    /\ BudgetExhausted(remaining)
    /\ unplanned' = PushUnplanned(unplanned, Current, "insufficient_time")
    /\ idx' = idx + 1
    /\ UNCHANGED <<store_vars, pc, inputs, relevant, scored, rescored,
                   day_start_dt, day_end_dt, cursor, remaining, plan>>

PlanRejectInvalid ==
    /\ InLoop
    /\ ~BudgetExhausted(remaining)
    /\ InvalidDuration(Current.task.duration_min)
    /\ unplanned' = PushUnplanned(unplanned, Current, "invalid_duration")
    /\ idx' = idx + 1
    /\ UNCHANGED <<store_vars, pc, inputs, relevant, scored, rescored,
                   day_start_dt, day_end_dt, cursor, remaining, plan>>

\* variant of the rejection for lack of room that moves the cursor and spends the budget
PlanRejectNoFitConsuming ==
    /\ InLoop
    /\ ~BudgetExhausted(remaining)
    /\ ~InvalidDuration(Current.task.duration_min)
    /\ DoesNotFit(CandidateEnd, day_end_dt, Current.task.duration_min, remaining)
    /\ unplanned' = PushUnplanned(unplanned, Current, "insufficient_time")
    /\ cursor' = CandidateEnd
    /\ remaining' = remaining - Current.task.duration_min
    /\ idx' = idx + 1
    /\ UNCHANGED <<store_vars, pc, inputs, relevant, scored, rescored,
                   day_start_dt, day_end_dt, plan>>

PlanRejectNoFit ==
    /\ InLoop
    /\ ~BudgetExhausted(remaining)
    /\ ~InvalidDuration(Current.task.duration_min)
    /\ DoesNotFit(CandidateEnd, day_end_dt, Current.task.duration_min, remaining)
    /\ unplanned' = PushUnplanned(unplanned, Current, "insufficient_time")
    /\ idx' = idx + 1
    /\ UNCHANGED <<store_vars, pc, inputs, relevant, scored, rescored,
                   day_start_dt, day_end_dt, cursor, remaining, plan>>

PlanAccept ==
    /\ InLoop
    /\ ~BudgetExhausted(remaining)
    /\ ~InvalidDuration(Current.task.duration_min)
    /\ ~DoesNotFit(CandidateEnd, day_end_dt, Current.task.duration_min, remaining)
    /\ plan' = Append(plan, MakePlanItem(Current, cursor, CandidateEnd))
    /\ cursor' = AdvanceCursor(cursor, CandidateEnd)
    /\ remaining' = remaining - Current.task.duration_min
    /\ idx' = idx + 1
    /\ UNCHANGED <<store_vars, pc, inputs, relevant, scored, rescored,
                   day_start_dt, day_end_dt, unplanned>>

\* (plan, unplanned)
PlanReturn ==
    /\ pc = "loop"
    /\ idx = Len(scored)
    /\ pc' = "done"
    /\ UNCHANGED <<store_vars, inputs, relevant, scored, rescored, plan_locals>>

---------------------------------------------------------------------------
(* Inputs *)

\* the offset of now: routes_plan.rs takes the machine's local offset
NowOffset == -(6 * 3600)

Task(id, title, due_at, duration_min, priority, status) ==
    [id |-> id, title |-> title, due_at |-> due_at, duration_min |-> duration_min,
     priority |-> priority, status |-> status]

\* a Vec<Task> built from templates: the ids are fresh (Uuid::new_v4), here the position
WithIds(s) == [i \in 1..Len(s) |->
                 Task(i, s[i].title, s[i].due_at, s[i].duration_min, s[i].priority, s[i].status)]

Lists(S, lo, hi) == UNION {[1..n -> S] : n \in lo..hi}

\* "HH:MM" strings as character codes
Str0900 == <<48, 57, 58, 48, 48>>
Str1000 == <<49, 48, 58, 48, 48>>
Str1030 == <<49, 48, 58, 51, 48>>
Str9am  == <<57, 97, 109>>
Str2400 == <<50, 52, 58, 48, 48>>
Str1060 == <<49, 48, 58, 54, 48>>
StrEmpty == <<>>

DaySettings(s, e) == [day_start |-> s, day_end |-> e, focus_block_min |-> 50]

PlanSettings == {DaySettings(Str0900, Str1000), DaySettings(Str0900, Str1030),
                 DaySettings(Str9am, Str1030), DaySettings(Str0900, Str2400),
                 DaySettings(StrEmpty, Str1060)}

PlanNows == {At(0, 8, 30, NowOffset), At(0, 9, 0, NowOffset), At(0, 9, 30, NowOffset),
             At(0, 11, 0, NowOffset)}

PlanBudgets == {-10, 0, 60, 100}

\* tasks due today at 09:00, all Todo, one title: (duration_min, priority)
PlanTemplates ==
    {Task(0, <<97>>, At(0, 9, 0, NowOffset), d[1], d[2], "Todo") :
        d \in {<<60, 3>>, <<30, 2>>, <<45, 3>>, <<0, 3>>, <<0, 1>>, <<-30, 2>>}}

\* what is on disk while a plan is computed: the db the request has loaded
NoRequests ==
    /\ db_file = [state |-> "full", db |-> [settings |-> settings, tasks |-> tasks]]
    /\ tmp_file = [state |-> "missing", db |-> [settings |-> settings, tasks |-> <<>>]]
    /\ req = <<>>
    /\ next_id = 0

NoLocals ==
    /\ NoRequests
    /\ scored = <<>>
    /\ rescored = <<>>
    /\ day_start_dt = now
    /\ day_end_dt = now
    /\ cursor = now
    /\ remaining = 0
    /\ idx = 0
    /\ plan = <<>>
    /\ unplanned = <<>>

\* GET /api/plan/today on a loaded db
Init ==
    /\ pc = "start"
    /\ tasks \in {WithIds(s) : s \in Lists(PlanTemplates, 0, MaxTasks)}
    /\ now \in PlanNows
    /\ date = 0
    /\ settings \in PlanSettings
    /\ available_min \in PlanBudgets
    /\ relevant = <<>>
    /\ NoLocals

Next ==
    \/ RelevantTasks
    \/ ScoreAndSort
    \/ PlanStart
    \/ PlanRejectBudget
    \/ PlanRejectInvalid
    \/ PlanRejectNoFit
    \/ PlanAccept
    \/ PlanReturn

Spec == Init /\ [][Next]_vars

---------------------------------------------------------------------------
(* score_and_sort on its own: the argument is drawn, then sorted, then sorted again *)

StrApple == <<97, 112, 112, 108, 101>>
StrApple2 == <<65, 112, 112, 108, 101>>
StrZebra == <<90, 101, 98, 114, 97>>
StrUnder == <<95>>
StrApp == <<97, 112, 112>>

SortTitles == {StrApple, StrApple2, StrZebra, StrUnder, StrApp}

SortTemplates ==
    {Task(0, ti, At(0, 9, 0, NowOffset), 30, p, "Todo") : ti \in SortTitles, p \in {2, 3}}

InitSort ==
    /\ pc = "relevant"
    /\ tasks = <<>>
    /\ now = At(0, 9, 30, NowOffset)
    /\ date = 0
    /\ settings = DaySettings(Str0900, Str1030)
    /\ available_min = 0
    /\ relevant \in {WithIds(s) : s \in Lists(SortTemplates, 0, MaxSortLen)}
    /\ NoLocals

NextSort ==
    \/ ScoreAndSort
    \/ Resort

SpecSort == InitSort /\ [][NextSort]_vars

---------------------------------------------------------------------------
(* the scores on their own: due instants and durations around every band edge *)

ScoreNow == At(0, 9, 30, NowOffset)

\* due instants k days after now, one tick less, exactly, one tick more; and two in the past
ScoreDues ==
    {AddTicks(ScoreNow, k * Day * Tps + e) : k \in 0..6, e \in {-1, 0, 1}}
    \cup {AddTicks(ScoreNow, -(Day * Tps)), AddTicks(ScoreNow, Tps - 1),
          AddTicks(ScoreNow, Day * Tps - Tps), AddTicks(ScoreNow, Day * Tps + Tps)}

ScoreDurations == {-5, 0, 1, 59, 60, 61, 119, 120, 121, 179, 180, 181, 239, 240, 241, 500}

ScoreTemplates ==
    {Task(0, StrApple, due, 30, 3, "Todo") : due \in ScoreDues}
    \cup {Task(0, StrApple, ScoreNow, dur, 3, "Todo") : dur \in ScoreDurations}

InitScore ==
    /\ pc = "relevant"
    /\ tasks = <<>>
    /\ now = ScoreNow
    /\ date = 0
    /\ settings = DaySettings(Str0900, Str1030)
    /\ available_min = 0
    /\ relevant \in {WithIds(s) : s \in Lists(ScoreTemplates, 1, MaxScoreLen)}
    /\ NoLocals

SpecScore == InitScore /\ [][NextSort]_vars

---------------------------------------------------------------------------
(* relevant_tasks on its own *)

\* an offset other than that of now: +09:00
OtherOffset == 9 * 3600

RelNows == {At(0, 9, 30, NowOffset), At(0, 23, 30, NowOffset)}

RelDues == {At(0, 9, 0, NowOffset), At(0, 9, 30, NowOffset), At(0, 23, 0, NowOffset),
            At(1, 9, 0, NowOffset), At(-1, 9, 0, NowOffset), At(1, 1, 0, OtherOffset),
            At(2, 3, 0, OtherOffset)}

RelTemplates ==
    {Task(0, StrApple, due, 30, 3, st) : due \in RelDues, st \in {"Todo", "InProgress", "Done"}}

InitRelevant ==
    /\ pc = "start"
    /\ tasks \in {WithIds(s) : s \in Lists(RelTemplates, 0, MaxRelLen)}
    /\ now \in RelNows
    /\ date \in {0, 1}
    /\ settings = DaySettings(Str0900, Str1030)
    /\ available_min = 0
    /\ relevant = <<>>
    /\ NoLocals

NextRelevant == RelevantTasks

SpecRelevant == InitRelevant /\ [][NextRelevant]_vars

---------------------------------------------------------------------------
(* Properties of build_today_plan *)

InPlan == pc \in {"loop", "done"}

\* how often the task with this id occurs in the two outputs
TimesPlaced(id) == Cardinality({j \in 1..Len(plan) : plan[j].task_id = id})
TimesUnplanned(id) == Cardinality({j \in 1..Len(unplanned) : unplanned[j].task_id = id})

\* the duration of the task behind a placed item
DurOf(id) == (CHOOSE i \in 1..Len(scored) : scored[i].task.id = id)
DurationOfItem(it) == scored[DurOf(it.task_id)].task.duration_min

RECURSIVE SumDurations(_)
SumDurations(p) == IF p = <<>> THEN 0 ELSE DurationOfItem(Head(p)) + SumDurations(Tail(p))

\* the entry a rejection of the current task with this reason appends
Rejected(reason) ==
    /\ unplanned' = Append(unplanned, [task_id |-> Current.task.id, reason |-> reason])
    /\ plan' = plan

\* C1: when build_today_plan returns, every task of scored_sorted is in exactly one
\* of placed and unplanned, exactly once, so |placed| + |unplanned| = |scored_sorted|
C1_EveryTaskOnce ==
    pc = "done" =>
        /\ Len(plan) + Len(unplanned) = Len(scored)
        /\ \A i \in 1..Len(scored) :
              TimesPlaced(scored[i].task.id) + TimesUnplanned(scored[i].task.id) = 1

C1_Witness ==
    /\ pc = "done"
    /\ Len(scored) >= 3
    /\ Len(plan) >= 1
    /\ \E j \in 1..Len(unplanned) : unplanned[j].reason = "insufficient_time"
    /\ \E j \in 1..Len(unplanned) : unplanned[j].reason = "invalid_duration"

\* C2: the placed items are pairwise non-overlapping as half-open intervals
\* [start, end) and their starts are strictly increasing in output order
C2_NoOverlapOrdered ==
    InPlan =>
        \A i, j \in 1..Len(plan) :
            i < j => /\ plan[i].start.t < plan[j].start.t
                     /\ ~\E t \in plan[j].start.t..(plan[i].end.t - 1) :
                            /\ plan[i].start.t <= t /\ t < plan[i].end.t
                            /\ plan[j].start.t <= t /\ t < plan[j].end.t

C2_Witness ==
    /\ pc = "done"
    /\ Len(plan) >= 2
    /\ Len(unplanned) >= 1

\* C3, first part: every placed item starts no earlier than the later of now and the
\* day start, ends no later than the day end, and the placed durations sum to at
\* most available_min
C3_InsideWindowAndBudget ==
    InPlan =>
        /\ \A j \in 1..Len(plan) :
              /\ plan[j].start.t >= now.t
              /\ plan[j].start.t >= day_start_dt.t
              /\ plan[j].end.t <= day_end_dt.t
        /\ (plan # <<>> => SumDurations(plan) <= available_min)

\* C3 as stated: inside the window and the budget, and whenever cursor + duration
\* exceeds the day end the task is rejected with insufficient_time
C3_AsStated ==
    /\ []C3_InsideWindowAndBudget
    /\ [][(InLoop /\ After(CandidateEnd, day_end_dt)) => Rejected("insufficient_time")]_vars

\* C3, amended: inside the window and the budget, and whenever a task of positive
\* duration has cursor + duration beyond the day end it is rejected with
\* insufficient_time, whatever the budget
C3_Amended ==
    /\ []C3_InsideWindowAndBudget
    /\ [][(InLoop /\ Current.task.duration_min > 0 /\ After(CandidateEnd, day_end_dt))
            => Rejected("insufficient_time")]_vars

\* a task that the budget alone would allow was turned away at the day end, next to a placed one
C3_Witness ==
    /\ InPlan
    /\ idx >= 2
    /\ Len(plan) >= 1
    /\ unplanned # <<>>
    /\ LET u == unplanned[Len(unplanned)]
           d == scored[DurOf(u.task_id)].task.duration_min
       IN /\ u.task_id = scored[idx].task.id
          /\ u.reason = "insufficient_time"
          /\ d > 0
          /\ d <= remaining
          /\ cursor.t + Minutes(d) > day_end_dt.t

\* C4 as stated: a task of duration 0 always ends in unplanned with reason invalid_duration
C4_AsStated ==
    pc = "done" =>
        \A i \in 1..Len(scored) :
            scored[i].task.duration_min = 0 =>
                \E j \in 1..Len(unplanned) :
                    unplanned[j] = [task_id |-> scored[i].task.id, reason |-> "invalid_duration"]

\* C4, amended: a task of duration 0 is never placed; it is rejected with
\* invalid_duration when the remaining budget is positive at the moment it is
\* reached, and with insufficient_time when the remaining budget is <= 0 by then
C4_Amended ==
    [][(InLoop /\ Current.task.duration_min = 0)
         => Rejected(IF remaining > 0 THEN "invalid_duration" ELSE "insufficient_time")]_vars

\* both outcomes in one run: a 0-minute task rejected as invalid, a task placed that
\* uses the budget up, and a later 0-minute task rejected for lack of time
C4_Witness ==
    /\ pc = "done"
    /\ available_min > 0
    /\ Len(plan) >= 1
    /\ \E j, k \in 1..Len(unplanned) :
          /\ j < k
          /\ unplanned[j].reason = "invalid_duration"
          /\ unplanned[k].reason = "insufficient_time"
          /\ scored[DurOf(unplanned[j].task_id)].task.duration_min = 0
          /\ scored[DurOf(unplanned[k].task_id)].task.duration_min = 0

\* C5: with available_min <= 0 nothing is placed and every task of the ranked
\* input ends in unplanned with reason insufficient_time
C5_NoBudgetRejectsAll ==
    (InPlan /\ available_min <= 0) =>
        /\ plan = <<>>
        /\ \A j \in 1..Len(unplanned) : unplanned[j].reason = "insufficient_time"
        /\ (pc = "done" =>
              /\ Len(unplanned) = Len(scored)
              /\ \A i \in 1..Len(scored) : unplanned[i].task_id = scored[i].task.id)

C5_Witness ==
    /\ pc = "done"
    /\ available_min <= 0
    /\ Len(scored) >= 2
    /\ Len(unplanned) = Len(scored)
    /\ \E i \in 1..Len(scored) : scored[i].task.duration_min <= 0
    /\ \E i \in 1..Len(scored) : scored[i].task.duration_min > 0

---------------------------------------------------------------------------
(* Properties of the Selector and the Scorer *)

Sorted == pc \in {"sorted", "resorted"}

\* two scored tasks tie: same total, same title up to case
Tie(a, b) == a.total = b.total /\ to_lowercase(a.task.title) = to_lowercase(b.task.title)

\* C6: score_and_sort returns a permutation of its input, each task with
\* total = urgency_score + priority + duration_score, and every adjacent pair has
\* the larger total first or, on equal totals, the case-insensitively smaller-or-equal
\* title first
C6_SortedPermutation ==
    Sorted =>
        /\ Len(scored) = Len(relevant)
        /\ \A i \in 1..Len(relevant) :
              Cardinality({j \in 1..Len(scored) : scored[j].task = relevant[i]}) = 1
        /\ \A j \in 1..Len(scored) :
              scored[j].total = urgency_score(scored[j].task.due_at, now)
                                + scored[j].task.priority
                                + duration_score(scored[j].task.duration_min)
        /\ \A j \in 1..(Len(scored) - 1) :
              \/ scored[j].total > scored[j + 1].total
              \/ /\ scored[j].total = scored[j + 1].total
                 /\ CmpStr(to_lowercase(scored[j].task.title),
                           to_lowercase(scored[j + 1].task.title)) <= 0

\* "Zebra" was handed in before "apple" with the same total and comes out behind it,
\* and a task of another total is in the list
C6_Witness ==
    /\ pc = "sorted"
    /\ Len(scored) >= 3
    /\ \E j \in 1..(Len(scored) - 1) :
          /\ scored[j].task.title = StrApple
          /\ scored[j + 1].task.title = StrZebra
          /\ scored[j].total = scored[j + 1].total
          /\ scored[j].task.id > scored[j + 1].task.id
    /\ \E i, j \in 1..Len(scored) : scored[i].total # scored[j].total

\* the tasks of a list that relevant_tasks has to keep
Keeps(t) ==
    /\ t.status # "Done"
    /\ (now.t > t.due_at.t \/ date_naive(t.due_at) = date)

\* C7: relevant_tasks returns exactly the tasks that are not Done and are overdue or
\* due on the target date (by the calendar date of the due instant), in input order
C7_RelevantExactly ==
    pc = "relevant" =>
        /\ \A i \in 1..Len(tasks) :
              Cardinality({k \in 1..Len(relevant) : relevant[k] = tasks[i]})
                  = (IF Keeps(tasks[i]) THEN 1 ELSE 0)
        /\ \A k \in 1..Len(relevant) : \E i \in 1..Len(tasks) : relevant[k] = tasks[i]
        /\ \A k, l \in 1..Len(relevant) : k < l => relevant[k].id < relevant[l].id

\* a task due on the target date at its own offset only is kept although it is not
\* overdue, and a task that is not Done is dropped
C7_Witness ==
    /\ pc = "relevant"
    /\ Len(tasks) >= 2
    /\ \E k \in 1..Len(relevant) :
          /\ ~(now.t > relevant[k].due_at.t)
          /\ relevant[k].due_at.off # now.off
          /\ date_naive([t |-> relevant[k].due_at.t, off |-> now.off]) # date
    /\ \E i \in 1..Len(tasks) :
          /\ tasks[i].status # "Done"
          /\ \A k \in 1..Len(relevant) : relevant[k] # tasks[i]

\* the urgency the bands of C8 give a due instant
BandUrgency(due_at) ==
    IF now.t >= due_at.t THEN 5
    ELSE LET d == (due_at.t - now.t) \div Tps IN
         IF d >= 5 * Day THEN 0 ELSE 5 - (d \div Day)

\* C8: urgency is 5 when now is at or past due_at; otherwise, with d the remaining
\* whole seconds: 5 below one day, 4 from one day, 3 from two, 2 from three, 1 from
\* four, 0 from five days on
C8_UrgencyBands ==
    Sorted => \A j \in 1..Len(scored) : scored[j].urgency = BandUrgency(scored[j].task.due_at)

\* a remainder of exactly two days scores 3, one tick less scores 4
C8_Witness ==
    /\ pc = "sorted"
    /\ \E i, j \in 1..Len(scored) :
          /\ scored[i].task.due_at.t - now.t = 2 * Day * Tps
          /\ scored[i].urgency = 3
          /\ scored[j].task.due_at.t - now.t = 2 * Day * Tps - 1
          /\ scored[j].urgency = 4

\* the score the table of C9 gives a duration
TableDurationScore(dur) ==
    IF dur <= 60 THEN 5 ELSE IF dur > 240 THEN 1 ELSE 5 - ((dur - 1) \div 60)

\* C9: duration_score is 5 up to 60 minutes, 4 for 61..120, 3 for 121..180, 2 for
\* 181..240, 1 above 240, hence never larger for the longer of two durations
C9_DurationBuckets ==
    Sorted =>
        /\ \A j \in 1..Len(scored) :
              scored[j].duration_score = TableDurationScore(scored[j].task.duration_min)
        /\ \A i, j \in 1..Len(scored) :
              scored[i].task.duration_min <= scored[j].task.duration_min
                  => scored[i].duration_score >= scored[j].duration_score

\* 60 minutes score 5 and 61 minutes score 4, in one list
C9_Witness ==
    /\ pc = "sorted"
    /\ \E i, j \in 1..Len(scored) :
          /\ scored[i].task.duration_min = 60 /\ scored[i].duration_score = 5
          /\ scored[j].task.duration_min = 61 /\ scored[j].duration_score = 4

\* C10: score_and_sort applied to the tasks of its own output returns that output,
\* and tasks that tie on total and case-insensitive title keep their input order
C10_Idempotent ==
    /\ (pc = "resorted" => rescored = scored)
    /\ (Sorted => \A i, j \in 1..Len(scored) :
                     (i < j /\ Tie(scored[i], scored[j]))
                         => scored[i].task.id < scored[j].task.id)

\* a list that was not in order, with "Apple" and "apple" tying, sorted twice
C10_Witness ==
    /\ pc = "resorted"
    /\ Len(scored) >= 3
    /\ \E i, j \in 1..Len(scored) :
          /\ i < j
          /\ Tie(scored[i], scored[j])
          /\ scored[i].task.title # scored[j].task.title
    /\ \E i \in 1..Len(scored) : scored[i].task # relevant[i]

---------------------------------------------------------------------------
(* More properties of build_today_plan *)

\* the rank of the task with this id in scored_sorted
RankOf(id) == DurOf(id)

\* C11: the unplanned items keep the relative order their tasks have in
\* scored_sorted, and so do the placed items, which is also their order in time
C11_RankingOrderKept ==
    InPlan =>
        /\ \A j, k \in 1..Len(unplanned) :
              j < k => RankOf(unplanned[j].task_id) < RankOf(unplanned[k].task_id)
        /\ \A j, k \in 1..Len(plan) :
              j < k => /\ RankOf(plan[j].task_id) < RankOf(plan[k].task_id)
                       /\ plan[j].start.t < plan[k].start.t

\* two rejected tasks with a placed one ranked between them
C11_Witness ==
    /\ pc = "done"
    /\ Len(unplanned) >= 2
    /\ Len(plan) >= 1
    /\ RankOf(unplanned[1].task_id) < RankOf(plan[1].task_id)
    /\ RankOf(plan[1].task_id) < RankOf(unplanned[2].task_id)

---------------------------------------------------------------------------
(* GET /api/plan/today for several target dates: tasks of every urgency reach the plan *)

\* longest task list of the requests that vary the target date
MaxDatedTasks == 2

Str1700 == <<49, 55, 58, 48, 48>>

\* due instants that score 5, 4, 2 and 0 at 09:30 of day 0
DatedDues == {At(0, 9, 0, NowOffset), At(1, 12, 0, NowOffset), At(3, 23, 0, NowOffset),
              At(6, 9, 30, NowOffset)}

\* (duration_min, priority)
DatedTemplates ==
    {Task(0, <<97>>, due, d[1], d[2], "Todo") :
        due \in DatedDues, d \in {<<0, 1>>, <<30, 5>>, <<300, 1>>, <<100, 5>>}}

InitDated ==
    /\ pc = "start"
    /\ tasks \in {WithIds(s) : s \in Lists(DatedTemplates, 1, MaxDatedTasks)}
    /\ now = At(0, 9, 30, NowOffset)
    /\ date \in {0, 1, 3, 6}
    /\ settings = DaySettings(Str0900, Str1700)
    /\ available_min \in {0, 400}
    /\ relevant = <<>>
    /\ NoLocals

SpecDated == InitDated /\ [][Next]_vars

\* C12: for a task with priority in 1..5 the scored task has urgency in 0..5,
\* duration_score in 1..5 and total in 2..15, and the breakdown of every placed
\* item satisfies total = urgency + priority + duration_score
C12_ScoreRanges ==
    /\ (pc \in {"sorted", "loop", "done"} =>
          \A j \in 1..Len(scored) :
              scored[j].task.priority \in 1..5 =>
                  /\ scored[j].urgency \in 0..5
                  /\ scored[j].duration_score \in 1..5
                  /\ scored[j].total \in 2..15)
    /\ (InPlan =>
          \A j \in 1..Len(plan) :
              LET b == plan[j].score_breakdown IN
              b.total = b.urgency + b.priority + b.duration_score)

\* a placed item with the smallest total and one with the largest
C12_Witness ==
    /\ pc = "done"
    /\ \E j, k \in 1..Len(plan) :
          /\ plan[j].score_breakdown = [urgency |-> 0, priority |-> 1,
                                        duration_score |-> 1, total |-> 2]
          /\ plan[k].score_breakdown = [urgency |-> 5, priority |-> 5,
                                        duration_score |-> 5, total |-> 15]

---------------------------------------------------------------------------
(* Properties of the single steps of build_today_plan *)

\* the current task fits: budget left, a positive duration, an end within the day
\* and a duration within the remaining budget
Fits ==
    /\ remaining > 0
    /\ Current.task.duration_min > 0
    /\ cursor.t + Current.task.duration_min * 60 * Tps <= day_end_dt.t
    /\ Current.task.duration_min <= remaining

\* the span a placed item must have when it is placed at the cursor
PlacedAtCursor(it) ==
    /\ it.task_id = Current.task.id
    /\ it.start = cursor
    /\ it.end.t = cursor.t + Current.task.duration_min * 60 * Tps

\* the scenario of C15: A of 60 minutes ranked before B of 30 minutes, a window of
\* 90 minutes that starts exactly at now, 100 available minutes
Scenario6030 ==
    /\ Len(scored) = 2
    /\ scored[1].task.duration_min = 60
    /\ scored[2].task.duration_min = 30
    /\ scored[1].total > scored[2].total
    /\ day_start_dt.t <= now.t
    /\ day_end_dt.t - now.t = 90 * 60 * Tps
    /\ available_min = 100

\* C15: a task is placed exactly when, at the moment it is reached, it fits; a task
\* that is turned away changes nothing for the tasks behind it; in the scenario both
\* tasks are placed, at [start, start+60) and [start+60, start+90)
C15_PlacedIffFits ==
    /\ [][InLoop =>
            IF Fits
            THEN /\ Len(plan') = Len(plan) + 1
                 /\ SubSeq(plan', 1, Len(plan)) = plan
                 /\ PlacedAtCursor(plan'[Len(plan')])
                 /\ unplanned' = unplanned
            ELSE /\ plan' = plan
                 /\ Len(unplanned') = Len(unplanned) + 1
                 /\ unplanned'[Len(unplanned')].task_id = Current.task.id]_vars
    /\ []((pc = "done" /\ Scenario6030) =>
            /\ Len(plan) = 2
            /\ unplanned = <<>>
            /\ plan[1].start.t = now.t
            /\ plan[1].end.t = now.t + 60 * 60 * Tps
            /\ plan[2].start.t = now.t + 60 * 60 * Tps
            /\ plan[2].end.t = now.t + 90 * 60 * Tps)

\* the first task of the ranking was too long for the day and the budget was not
\* the reason; a task ranked behind it is placed at the very start
C15_Witness ==
    /\ pc = "done"
    /\ Len(plan) >= 1
    /\ unplanned # <<>>
    /\ unplanned[1].task_id = scored[1].task.id
    /\ unplanned[1].reason = "insufficient_time"
    /\ scored[1].task.duration_min > 0
    /\ scored[1].task.duration_min <= available_min
    /\ plan[1].start = StartCursor(now, day_start_dt)
    /\ RankOf(plan[1].task_id) > 1

\* C16: a step that rejects a task leaves the cursor, the remaining budget and the
\* placed items as they were; the unplanned list grows by one entry
C16_RejectionFrame ==
    [][(InLoop /\ unplanned' # unplanned) =>
          /\ cursor' = cursor
          /\ remaining' = remaining
          /\ plan' = plan
          /\ Len(unplanned') = Len(unplanned) + 1
          /\ SubSeq(unplanned', 1, Len(unplanned)) = unplanned
          /\ unplanned'[Len(unplanned')].reason \in {"insufficient_time", "invalid_duration"}]_vars

\* after a task was placed, a task was rejected for each of the two reasons, and the
\* cursor still stands at the end of the placed item with the budget it left
C16_Witness ==
    /\ InPlan
    /\ Len(plan) = 1
    /\ RankOf(plan[1].task_id) = 1
    /\ Len(unplanned) = 2
    /\ {unplanned[1].reason, unplanned[2].reason} = {"insufficient_time", "invalid_duration"}
    /\ cursor = plan[1].end
    /\ remaining = available_min - scored[1].task.duration_min
    /\ remaining > 0

\* C17: the first placed item starts at the later of now and the day start, every
\* later one starts where the one before ends, each lasts its task's duration, and
\* the remaining budget is available_min less the placed durations
C17_Contiguous ==
    InPlan =>
        /\ (plan # <<>> =>
              plan[1].start.t = (IF now.t > day_start_dt.t THEN now.t ELSE day_start_dt.t))
        /\ \A j \in 1..(Len(plan) - 1) : plan[j + 1].start = plan[j].end
        /\ \A j \in 1..Len(plan) :
              plan[j].end.t - plan[j].start.t = DurationOfItem(plan[j]) * 60 * Tps
        /\ remaining = available_min - (IF plan = <<>> THEN 0 ELSE SumDurations(plan))
        /\ cursor.t = (IF plan = <<>>
                       THEN (IF now.t > day_start_dt.t THEN now.t ELSE day_start_dt.t)
                       ELSE plan[Len(plan)].end.t)

\* two items placed back to back, the first at now, which is later than the day start
C17_Witness ==
    /\ pc = "done"
    /\ Len(plan) >= 2
    /\ now.t > day_start_dt.t
    /\ plan[1].start.t = now.t
    /\ remaining < available_min

\* C18: the remaining budget never grows; it is never negative when available_min
\* is not; once it is <= 0 every further task is rejected with insufficient_time
C18_BudgetOnlyShrinks ==
    /\ [][pc = "loop" => remaining' <= remaining]_vars
    /\ []((InPlan /\ available_min >= 0) => remaining >= 0)
    /\ [][(InLoop /\ remaining <= 0) => Rejected("insufficient_time")]_vars

\* the placed tasks used the budget up exactly and the next task was rejected for it
C18_Witness ==
    /\ InPlan
    /\ available_min > 0
    /\ remaining = 0
    /\ Len(plan) >= 1
    /\ idx >= 2
    /\ unplanned # <<>>
    /\ unplanned[Len(unplanned)] = [task_id |-> scored[idx].task.id,
                                    reason |-> "insufficient_time"]
    /\ RankOf(plan[Len(plan)].task_id) < idx

\* settings strings that are not a time of day
MalformedTimes == {Str9am, Str2400, Str1060, StrEmpty}

\* C19: with a day_start that cannot be parsed the cursor starts at now, with a
\* day_end that cannot be parsed the day ends 8 hours after now, and the tasks are
\* placed between the two
C19_MalformedSettings ==
    InPlan =>
        /\ (settings.day_start \in MalformedTimes =>
              /\ day_start_dt = now
              /\ (plan = <<>> => cursor = now)
              /\ (plan # <<>> => plan[1].start = now))
        /\ (settings.day_end \in MalformedTimes =>
              /\ day_end_dt.t = now.t + 8 * 3600 * Tps
              /\ \A j \in 1..Len(plan) :
                    /\ plan[j].start.t >= now.t
                    /\ plan[j].end.t <= now.t + 8 * 3600 * Tps)

\* both strings malformed, the request went through and placed tasks from now on
C19_Witness ==
    /\ pc = "done"
    /\ settings.day_start \in MalformedTimes
    /\ settings.day_end \in MalformedTimes
    /\ Len(plan) >= 2
    /\ plan[1].start = now
    /\ plan[Len(plan)].end.t > parse_hhmm_to_today(date, Str1030, now.off).v.t

-----------------------------------------------------------------------------
(* The store: data/db.json and its temporary file *)

MaxCreates == 2

\* a Db value
Db(s, ts) == [settings |-> s, tasks |-> ts]

\* what a file holds.  The text of a Db is its pretty JSON; a file that was created
\* and not written to the end, or written over by two writers, holds text that
\* serde_json::from_str rejects.
NoDb == Db(DaySettings(StrEmpty, StrEmpty), <<>>)
FileMissing == [state |-> "missing", db |-> NoDb]
FilePartial == [state |-> "partial", db |-> NoDb]
FileFull(db) == [state |-> "full", db |-> db]

\* store::load_db: read data/db.json and parse it
load_db == IF db_file.state = "full" THEN Some(db_file.db) ELSE None

\* a worker that is not inside a request; resp is the status of its last answer (0: none yet)
\* and, for an answer after a successful save_db, op and id are the request it answered
Idle(code) == [pc |-> "idle", op |-> "none", id |-> 0, db |-> NoDb, fd |-> "none", resp |-> code]

\* a worker whose handler has built the new db in memory and is about to call save_db
Saving(op, id, db) ==
    [pc |-> "save_create", op |-> op, id |-> id, db |-> db, fd |-> "none", resp |-> 0]

\* return (StatusCode, ..): the handler answers without touching the files
Respond(p, code) ==
    /\ req' = [req EXCEPT ![p] = Idle(code)]
    /\ UNCHANGED <<db_file, tmp_file, next_id>>

\* the handler goes on to store::save_db(&db)
CallSaveDb(p, op, id, db) ==
    /\ req' = [req EXCEPT ![p] = Saving(op, id, db)]
    /\ UNCHANGED <<db_file, tmp_file>>

\* fs::write(&tmp_path, text), first half: File::create opens data/db.json.tmp,
\* creating it or cutting it to length zero
SaveCreate(p) ==
    /\ req[p].pc = "save_create"
    /\ tmp_file' = FilePartial
    /\ req' = [req EXCEPT ![p].pc = "save_write", ![p].fd = "tmp"]
    /\ UNCHANGED <<db_file, next_id>>

\* what a file holds after a writer has written its whole text from offset zero:
\* its own text if the file was empty, and its own text or a mixture of two texts
\* if another writer had written to the same file
WriteOutcomes(old, db) ==
    IF old.state = "partial" THEN {FileFull(db)} ELSE {FileFull(db), FilePartial}

\* fs::write, second half: write_all through the open file, then close it.  The open
\* file follows the inode: it is data/db.json.tmp, or data/db.json once another
\* worker has renamed the file, or a file with no name left.
SaveWrite(p) ==
    /\ req[p].pc = "save_write"
    /\ \/ /\ req[p].fd = "tmp"
          /\ tmp_file' \in WriteOutcomes(tmp_file, req[p].db)
          /\ UNCHANGED db_file
       \/ /\ req[p].fd = "db"
          /\ db_file' \in WriteOutcomes(db_file, req[p].db)
          /\ UNCHANGED tmp_file
       \/ /\ req[p].fd = "gone"
          /\ UNCHANGED <<db_file, tmp_file>>
    /\ req' = [req EXCEPT ![p].pc = "save_rename", ![p].fd = "none"]
    /\ UNCHANGED next_id

\* where the open files of the other workers point after data/db.json.tmp has been
\* renamed over data/db.json
FdAfterRename(fd) ==
    CASE fd = "tmp" -> "db"
      [] fd = "db" -> "gone"
      [] OTHER -> fd

\* fs::rename(&tmp_path, DB_PATH)? and the handler's answer: 500 if save_db failed
\* (the temporary file is no longer there), the JSON answer otherwise
SaveRename(p) ==
    /\ req[p].pc = "save_rename"
    /\ IF tmp_file.state = "missing"
       THEN /\ req' = [req EXCEPT ![p] = Idle(500)]
            /\ UNCHANGED <<db_file, tmp_file>>
       ELSE /\ db_file' = tmp_file
            /\ tmp_file' = FileMissing
            /\ req' = [q \in DOMAIN req |->
                         IF q = p THEN [Idle(200) EXCEPT !.op = req[p].op, !.id = req[p].id]
                         ELSE [req[q] EXCEPT !.fd = FdAfterRename(req[q].fd)]]
    /\ UNCHANGED next_id

-----------------------------------------------------------------------------
(* The task and settings handlers *)

\* str::trim().is_empty(): nothing but white space
is_blank(s) == \A i \in 1..Len(s) : s[i] \in {9, 10, 11, 12, 13, 32}

\* (1..=5).contains(&priority)
priority_in_range_from_zero(p) == p >= 0 /\ p <= 5

priority_in_range(p) == p >= 1 /\ p <= 5

\* DateTime::parse_from_rfc3339 on the texts the requests carry
DueText == "2026-11-02T09:00:00-06:00"
DueTextNoOffset == "2026-11-02 09:00"

parse_from_rfc3339(s) ==
    CASE s = DueText -> Some(At(0, 9, 0, NowOffset))
      [] OTHER -> None

\* Uuid::parse_str on the path segments the requests carry
parse_str(s) ==
    CASE s = "00000000-0000-4000-8000-000000000001" -> Some(1)
      [] s = "00000000-0000-4000-8000-000000000002" -> Some(2)
      [] s = "00000000-0000-4000-8000-000000000003" -> Some(3)
      [] s = "00000000-0000-4000-8000-000000000004" -> Some(4)
      [] OTHER -> None

\* Uuid::new_v4(): an id no task has had; id 1 is the task the db starts with
new_v4 == 2 + next_id

\* db.tasks.iter_mut().find(|t| t.id == id): the position of the task, 0 if there is none
find(ts, id) ==
    IF \E i \in 1..Len(ts) : ts[i].id = id
    THEN CHOOSE i \in 1..Len(ts) : ts[i].id = id /\ \A j \in 1..(i - 1) : ts[j].id # id
    ELSE 0

\* db.tasks.retain(|t| t.id != id)
retain(ts, id) == SelectSeq(ts, LAMBDA t : t.id # id)

\* the match of toggle_task
next_status(s) ==
    CASE s = "Todo" -> "InProgress"
      [] s = "InProgress" -> "Done"
      [] s = "Done" -> "Todo"

\* POST /api/tasks with the priority looked at only after the task has been stored
create_task_priority_checked_late(p, input) ==
    /\ req[p].pc = "idle"
    /\ IF is_blank(input.title) THEN Respond(p, 400)
       ELSE IF ~parse_from_rfc3339(input.due_at).some THEN Respond(p, 400)
       ELSE IF ~load_db.some THEN Respond(p, 500)
       ELSE /\ next_id < MaxCreates
            /\ LET db == load_db.v
                   task == Task(new_v4, input.title, parse_from_rfc3339(input.due_at).v,
                                input.duration_min, input.priority, "Todo")
               IN IF priority_in_range(input.priority)
                  THEN CallSaveDb(p, "create_task", task.id,
                                  Db(db.settings, Append(db.tasks, task)))
                  ELSE /\ db_file' = FileFull(Db(db.settings, Append(db.tasks, task)))
                       /\ req' = [req EXCEPT ![p] = Idle(400)]
                       /\ UNCHANGED tmp_file
            /\ next_id' = next_id + 1


\* POST /api/tasks
create_task(p, input) ==
    /\ req[p].pc = "idle"
    /\ IF is_blank(input.title) THEN Respond(p, 400)
       ELSE IF ~priority_in_range(input.priority) THEN Respond(p, 400)
       ELSE IF ~parse_from_rfc3339(input.due_at).some THEN Respond(p, 400)
       ELSE IF ~load_db.some THEN Respond(p, 500)
       ELSE /\ next_id < MaxCreates
            /\ LET db == load_db.v
                   task == Task(new_v4, input.title, parse_from_rfc3339(input.due_at).v,
                                input.duration_min, input.priority, "Todo")
               IN CallSaveDb(p, "create_task", task.id,
                             Db(db.settings, Append(db.tasks, task)))
            /\ next_id' = next_id + 1

\* PUT /api/tasks/:id
update_task(p, path, input) ==
    /\ req[p].pc = "idle"
    /\ IF ~parse_str(path).some THEN Respond(p, 400)
       ELSE IF is_blank(input.title) THEN Respond(p, 400)
       ELSE IF ~priority_in_range(input.priority) THEN Respond(p, 400)
       ELSE IF ~parse_from_rfc3339(input.due_at).some THEN Respond(p, 400)
       ELSE IF ~load_db.some THEN Respond(p, 500)
       ELSE LET db == load_db.v
                id == parse_str(path).v
                i == find(db.tasks, id)
            IN IF i = 0 THEN Respond(p, 404)
               ELSE /\ CallSaveDb(p, "update_task", id,
                          Db(db.settings,
                             [db.tasks EXCEPT ![i] =
                                 Task(id, input.title, parse_from_rfc3339(input.due_at).v,
                                      input.duration_min, input.priority, input.status)]))
                    /\ UNCHANGED next_id

\* DELETE /api/tasks/:id
delete_task(p, path) ==
    /\ req[p].pc = "idle"
    /\ IF ~parse_str(path).some THEN Respond(p, 400)
       ELSE IF ~load_db.some THEN Respond(p, 500)
       ELSE LET db == load_db.v
                id == parse_str(path).v
                kept == retain(db.tasks, id)
            IN IF Len(kept) = Len(db.tasks) THEN Respond(p, 404)
               ELSE /\ CallSaveDb(p, "delete_task", id, Db(db.settings, kept))
                    /\ UNCHANGED next_id

\* POST /api/tasks/:id/toggle
toggle_task(p, path) ==
    /\ req[p].pc = "idle"
    /\ IF ~parse_str(path).some THEN Respond(p, 400)
       ELSE IF ~load_db.some THEN Respond(p, 500)
       ELSE LET db == load_db.v
                id == parse_str(path).v
                i == find(db.tasks, id)
            IN IF i = 0 THEN Respond(p, 404)
               ELSE /\ CallSaveDb(p, "toggle_task", id,
                          Db(db.settings,
                             [db.tasks EXCEPT ![i].status = next_status(db.tasks[i].status)]))
                    /\ UNCHANGED next_id

\* PUT /api/settings
put_settings(p, s) ==
    /\ req[p].pc = "idle"
    /\ IF ~load_db.some THEN Respond(p, 500)
       ELSE /\ CallSaveDb(p, "put_settings", 0, Db(s, load_db.v.tasks))
            /\ UNCHANGED next_id

-----------------------------------------------------------------------------
(* The server handling task and settings requests *)

plan_vars == <<pc, inputs, relevant, scored, rescored, plan_locals>>

\* no plan request is being computed
NoPlan ==
    /\ pc = "off"
    /\ tasks = <<>>
    /\ now = At(0, 9, 30, NowOffset)
    /\ date = 0
    /\ settings = DaySettings(Str0900, Str1000)
    /\ available_min = 0
    /\ relevant = <<>>
    /\ scored = <<>>
    /\ rescored = <<>>
    /\ day_start_dt = now
    /\ day_end_dt = now
    /\ cursor = now
    /\ remaining = 0
    /\ idx = 0
    /\ plan = <<>>
    /\ unplanned = <<>>

\* the task data/db.json starts with
FirstTask == Task(1, <<97>>, At(0, 9, 0, NowOffset), 30, 1, "Todo")

PathIds == {"00000000-0000-4000-8000-000000000001", "00000000-0000-4000-8000-000000000002",
            "00000000-0000-4000-8000-000000000003", "not-a-uuid"}

CreateInputs ==
    [title : {<<>>, <<32>>, <<32, 98>>}, due_at : {DueText, DueTextNoOffset},
     duration_min : {-5}, priority : {0, 5, 6}]

UpdateInputs ==
    [title : {<<>>, <<32>>, <<32, 98>>}, due_at : {DueText, DueTextNoOffset},
     duration_min : {-5}, priority : {0, 5, 6}, status : {"Done"}]

SettingsInputs == {DaySettings(Str9am, Str1030)}

\* one worker: the requests are handled one after the other
InitCrud ==
    /\ NoPlan
    /\ db_file \in {FileFull(Db(DaySettings(Str0900, Str1000), ts)) : ts \in {<<>>, <<FirstTask>>}}
    /\ tmp_file = FileMissing
    /\ req = <<Idle(0)>>
    /\ next_id = 0

NextCrud ==
    \E p \in DOMAIN req :
        /\ \/ \E input \in CreateInputs : create_task(p, input)
           \/ \E path \in PathIds, input \in UpdateInputs : update_task(p, path, input)
           \/ \E path \in PathIds : delete_task(p, path)
           \/ \E path \in PathIds : toggle_task(p, path)
           \/ \E s \in SettingsInputs : put_settings(p, s)
           \/ SaveCreate(p)
           \/ SaveWrite(p)
           \/ SaveRename(p)
        /\ UNCHANGED plan_vars

SpecCrud == InitCrud /\ [][NextCrud]_vars

\* two workers of the tokio runtime: two requests are handled at the same time
ValidCreate == [title |-> <<32, 98>>, due_at |-> DueText, duration_min |-> -5, priority |-> 5]

InitSave ==
    /\ NoPlan
    /\ db_file = FileFull(Db(DaySettings(Str0900, Str1000), <<FirstTask>>))
    /\ tmp_file = FileMissing
    /\ req = <<Idle(0), Idle(0)>>
    /\ next_id = 0

NextSave ==
    \E p \in DOMAIN req :
        /\ \/ create_task(p, ValidCreate)
           \/ toggle_task(p, "00000000-0000-4000-8000-000000000001")
           \/ SaveCreate(p)
           \/ SaveWrite(p)
           \/ SaveRename(p)
        /\ UNCHANGED plan_vars

SpecSave == InitSave /\ [][NextSave]_vars

-----------------------------------------------------------------------------
(* C13: save_db protects data/db.json against a stop in the middle of a write.
   Whatever point the process stops at, data/db.json holds a complete text: the
   one it had before or the one being saved, never a partly written one. *)
C13_DbFileAlwaysComplete == db_file.state = "full"

-----------------------------------------------------------------------------
\* the status data/db.json holds for the task id, before and after a step
StoredStatus(id) == db_file.db.tasks[find(db_file.db.tasks, id)].status
StoredStatusAfter(id) == db_file'.db.tasks[find(db_file'.db.tasks, id)].status

\* a toggle_task request on task id ends with a successful answer in this step
ToggleAnswered(p) ==
    /\ req[p].pc = "save_rename"
    /\ req[p].op = "toggle_task"
    /\ req'[p].resp = 200

(* C14: toggle_task toggles the addressed task between Todo and Done: whenever a
   toggle_task request succeeds, a task stored as Todo is stored as Done
   afterwards and a task stored as Done is stored as Todo afterwards. *)
C14_ToggleTodoDone ==
    [][\A p \in DOMAIN req :
          ToggleAnswered(p) =>
             /\ StoredStatus(req[p].id) = "Todo" => StoredStatusAfter(req[p].id) = "Done"
             /\ StoredStatus(req[p].id) = "Done" => StoredStatusAfter(req[p].id) = "Todo"]_vars
-----------------------------------------------------------------------------
\* a task as the core expects it: a title that is not all white space, a priority of 1 to 5
WellFormedTask(t) ==
    /\ \E i \in 1..Len(t.title) : t.title[i] \notin {9, 10, 11, 12, 13, 32}
    /\ t.priority \in 1..5

StoredTasks == db_file.db.tasks

(* C20: starting from a db whose tasks all have a non-blank title and a priority
   in 1..5, after any sequence of create_task, update_task, delete_task,
   toggle_task and put_settings requests every task stored in data/db.json still
   has a non-blank title and a priority in 1..5. *)
C20_StoredTasksWellFormed ==
    db_file.state = "full" /\ \A i \in 1..Len(StoredTasks) : WellFormedTask(StoredTasks[i])

\* two tasks are stored, one created and one rewritten by update_task, the settings
\* have been replaced, and the last request was turned down with 400
C20_Witness ==
    /\ db_file.state = "full"
    /\ Len(StoredTasks) >= 2
    /\ \E i \in 1..Len(StoredTasks) : StoredTasks[i].id = 1 /\ StoredTasks[i].priority = 5
    /\ \E i \in 1..Len(StoredTasks) : StoredTasks[i].id = 2 /\ StoredTasks[i].status = "InProgress"
    /\ db_file.db.settings = DaySettings(Str9am, Str1030)
    /\ req[1].pc = "idle" /\ req[1].resp = 400

-----------------------------------------------------------------------------
\* a worker's request ends in this step with the status code
Answered(p, code) ==
    /\ req[p].pc # "idle"
    /\ req'[p].pc = "idle"
    /\ req'[p].resp = code

\* a worker takes a request and turns it down in the same step with the status code
TurnedDown(p, code) ==
    /\ req[p].pc = "idle"
    /\ req' # req
    /\ req'[p].pc = "idle"
    /\ req'[p].resp = code

(* C21: a create_task, update_task, delete_task or toggle_task request that is
   answered with 400 (blank title, priority outside 1..5, unparseable due_at,
   malformed id) or with 404 (no task has the id) leaves data/db.json, and the
   temporary file, exactly as they were. *)
C21_ErrorsLeaveDbUnchanged ==
    [][\A p \in DOMAIN req :
          (TurnedDown(p, 400) \/ TurnedDown(p, 404) \/ Answered(p, 400) \/ Answered(p, 404))
             => db_file' = db_file /\ tmp_file' = tmp_file]_vars

\* a request has just been answered 404 on a db that holds two tasks, one of them
\* no longer in the state it was created in
C21_Witness ==
    /\ req[1].pc = "idle" /\ req[1].resp = 404
    /\ db_file.state = "full"
    /\ Len(StoredTasks) = 2
    /\ \E i \in 1..Len(StoredTasks) : StoredTasks[i].status = "Done"

-----------------------------------------------------------------------------
\* the duration of the task behind an unplanned entry
DurationOfUnplanned(u) == scored[DurOf(u.task_id)].task.duration_min

\* a task of this duration would be turned away if it came now
NoRoomFor(dur) ==
    \/ cursor.t + dur * 60 * Tps > day_end_dt.t
    \/ dur > remaining
    \/ remaining <= 0

(* C22: when build_today_plan has finished, no unplanned task with a positive
   duration could still be appended to the plan: for each of them the final
   cursor plus its duration lies after the end of the day, or its duration
   exceeds the final remaining budget, or the final remaining budget is <= 0. *)
C22_NothingLeftToPlace ==
    pc = "done" =>
        \A j \in 1..Len(unplanned) :
            DurationOfUnplanned(unplanned[j]) > 0 => NoRoomFor(DurationOfUnplanned(unplanned[j]))

\* the plan is finished with budget left, something placed, and a task of positive
\* duration turned away although the budget left would cover it
C22_Witness ==
    /\ pc = "done"
    /\ remaining > 0
    /\ Len(plan) >= 1
    /\ \E j \in 1..Len(unplanned) :
          /\ DurationOfUnplanned(unplanned[j]) > 0
          /\ DurationOfUnplanned(unplanned[j]) <= remaining
          /\ RankOf(unplanned[j].task_id) < RankOf(plan[Len(plan)].task_id)

-----------------------------------------------------------------------------
\* no request is being handled and the last request of every worker was answered
\* with success
AllAnsweredOk == \A p \in DOMAIN req : req[p].pc = "idle" /\ req[p].resp = 200

IsStored(id) == \E i \in 1..Len(StoredTasks) : StoredTasks[i].id = id

(* C23: when two mutating requests are handled at the same time and both are
   answered with success, the stored db holds the effect of both: once both
   workers have answered 200 and data/db.json is readable, the task of every
   create_task among the two requests is stored (no request deletes a task here). *)
C23_NoLostUpdate ==
    (AllAnsweredOk /\ db_file.state = "full") =>
        \A p \in DOMAIN req : req[p].op = "create_task" => IsStored(req[p].id)

=============================================================================
